---- MODULE Spec2Model ----
(***************************************************************************)
(* A model of solution.py: the immutable Memory / Thread / GlobalState     *)
(* values, GlobalState.run (the successor set under atomic interleaving)   *)
(* and the worklist exploration loop of main().                            *)
(*                                                                         *)
(* Program counters are 0-based as in the source; TLA+ sequences are       *)
(* 1-based, so states[current_state] is written states[current_state + 1]. *)
(***************************************************************************)
EXTENDS Integers, Sequences, FiniteSets, Bags, TLC

VARIABLES
    initial,      \* the GlobalState appended to the queue before the loop
    used,         \* main(): used = set()
    queue,        \* main(): queue = deque()
    transitions,  \* main(): transitions = set()
    item,         \* main(): the local `item`, <<>> while unbound, else <<GlobalState>>
    new_states,   \* main(): the local `new_states`
    pc,           \* position of main(): "loop" (the while test), "record" (the
                  \* for loop), "extend" (lines 129-132), "done", or "error"
                  \* (an uncaught exception ended main)
    expanded,     \* history: bag of the items on which item.run() was called
    enqueued,     \* history: bag of the items appended to the queue
    previous,     \* <<>>, or <<used, transitions, item>> as an earlier run of main() left them
    calls,        \* history: the Threads on which Thread.run was called
    heap,         \* the Memory objects of a sequence of Memory.set calls: heap[o]
                  \* is the content of object o's vars
    call          \* <<>>, or the last Memory.set call: its receiver, its kwargs,
                  \* the object it returned and the heap before it

vars == <<initial, used, queue, transitions, item, new_states, pc, expanded, enqueued,
          previous, calls, heap, call>>

----------------------------------------------------------------------------
(* Memory *)

\* What dict.get returns for a missing key (Python's None), kept apart from
\* the integer values the shipped model stores.
None == -1

\* Memory(frozendict())
EmptyMemory == <<>>

\* Memory.set(**kwargs): a new mapping, the receiver's entries overridden by kwargs
MemorySet(memory, kwargs) ==
    [var \in (DOMAIN memory) \cup (DOMAIN kwargs) |->
        IF var \in DOMAIN kwargs THEN kwargs[var] ELSE memory[var]]

\* Memory.get(key)
MemoryGet(memory, key) ==
    IF key \in DOMAIN memory THEN memory[key] ELSE None

----------------------------------------------------------------------------
(* The transition functions of main(): each returns the tuple              *)
(* (new_shared_memory, new_local_memory, new_state, is_running).           *)

\* def nop(shared, local): return shared, local, 1      (a 3-tuple)
nop(shared, local) == <<shared, local, 1>>

\* states of thread "P", indices 1..4
P1(shared, local) == <<MemorySet(shared, [a |-> 1]), local, 2, TRUE>>
\* P's states[2] without its wait on b
P2NoWait(shared, local) == <<shared, local, 3, TRUE>>

P2(shared, local) ==
    IF MemoryGet(shared, "b") # 0
    THEN <<shared, local, 2, TRUE>>
    ELSE <<shared, local, 3, TRUE>>
P3(shared, local) == <<shared, local, 4, TRUE>>
\* P's states[4] going back to index 0 instead of 1
P4ToZero(shared, local) == <<MemorySet(shared, [a |-> 0]), local, 0, TRUE>>

P4(shared, local) == <<MemorySet(shared, [a |-> 0]), local, 1, TRUE>>

\* states of thread "Q", indices 1..3
Q1(shared, local) == <<MemorySet(shared, [b |-> 1]), local, 2, TRUE>>
\* Q's states[2] going on to state 3 whatever a is
Q2Proceeds(shared, local) == <<shared, local, 3, TRUE>>

Q2(shared, local) ==
    IF MemoryGet(shared, "a") = 0
    THEN <<shared, local, 4, FALSE>>
    ELSE <<shared, local, 3, TRUE>>
\* Q's states[3] without its reset of b
Q3KeepsB(shared, local) == <<shared, local, 1, TRUE>>

Q3(shared, local) == <<MemorySet(shared, [b |-> 0]), local, 1, TRUE>>

\* Scenario A: the single function of a one-entry table
A0(shared, local) == <<MemorySet(shared, [x |-> 1]), local, 1, TRUE>>

\* Scenario B: increment, then wrap, for the thread on a and the thread on b
IncA(shared, local) ==
    <<MemorySet(shared, [a |-> MemoryGet(shared, "a") + 1]), local, 1, TRUE>>
WrapA(shared, local) == <<MemorySet(shared, [a |-> 0]), local, 0, TRUE>>
IncB(shared, local) ==
    <<MemorySet(shared, [b |-> MemoryGet(shared, "b") + 1]), local, 1, TRUE>>
WrapB(shared, local) == <<MemorySet(shared, [b |-> 0]), local, 0, TRUE>>

AStates == <<"A0">>
BAStates == <<"IncA", "WrapA">>
BBStates == <<"IncB", "WrapB">>

\* The tables: a function value is named by a tag, Call applies it.
PStates == <<"nop", "P1", "P2", "P3", "P4">>
QStates == <<"nop", "Q1", "Q2", "Q3">>

Call(fn, shared, local) ==
    CASE fn = "nop" -> nop(shared, local)
      [] fn = "P1"  -> P1(shared, local)
      [] fn = "P2"  -> P2(shared, local)
      [] fn = "P3"  -> P3(shared, local)
      [] fn = "P4"  -> P4(shared, local)
      [] fn = "Q1"  -> Q1(shared, local)
      [] fn = "Q2"  -> Q2(shared, local)
      [] fn = "Q3"  -> Q3(shared, local)
      [] fn = "A0"  -> A0(shared, local)
      [] fn = "IncA" -> IncA(shared, local)
      [] fn = "WrapA" -> WrapA(shared, local)
      [] fn = "IncB" -> IncB(shared, local)
      [] fn = "WrapB" -> WrapB(shared, local)

----------------------------------------------------------------------------
(* Thread *)

Thread(local_memory, states, name, current_state, is_running) ==
    [local_memory |-> local_memory, states |-> states, name |-> name,
     current_state |-> current_state, is_running |-> is_running]

\* Thread.run raises when states[current_state] is out of range (IndexError)
\* or when the function's result does not unpack into four names (ValueError).
ThreadRunRaises(thread, shared_memory) ==
    \/ thread.current_state + 1 > Len(thread.states)
    \/ Len(Call(thread.states[thread.current_state + 1],
                shared_memory, thread.local_memory)) # 4

\* Thread.run(shared_memory) -> (Thread, Memory), when it does not raise
ThreadRun(thread, shared_memory) ==
    LET r == Call(thread.states[thread.current_state + 1],
                  shared_memory, thread.local_memory)
    IN  <<Thread(r[2], thread.states, thread.name, r[3], r[4]), r[1]>>

----------------------------------------------------------------------------
(* GlobalState *)

GlobalState(shared_memory, threads) ==
    [shared_memory |-> shared_memory, threads |-> threads]

\* GlobalState.run without its `if not thread.is_running: continue`
SteppedAll(g) == 1..Len(g.threads)

\* the indices i at which the loop of GlobalState.run does not `continue`
Stepped(g) == {i \in 1..Len(g.threads) : g.threads[i].is_running}

\* GlobalState.run writing into self.threads itself instead of a copy: the
\* steps of the threads before i stay in the list
StepThreadAliased(g, i) ==
    GlobalState(ThreadRun(g.threads[i], g.shared_memory)[2],
                [j \in 1..Len(g.threads) |->
                    IF j <= i /\ g.threads[j].is_running
                    THEN ThreadRun(g.threads[j], g.shared_memory)[1]
                    ELSE g.threads[j]])

\* one pass of the loop body for index i
StepThread(g, i) ==
    LET r == ThreadRun(g.threads[i], g.shared_memory)
    IN  GlobalState(r[2], [g.threads EXCEPT ![i] = r[1]])

\* the indices i at which GlobalState.run calls thread.run: the loop stops at
\* the first call that raises
Called(g) ==
    {i \in Stepped(g) :
        \A j \in Stepped(g) : j < i => ~ThreadRunRaises(g.threads[j], g.shared_memory)}

\* GlobalState.run raises when a thread it steps raises
GlobalStateRunRaises(g) ==
    \E i \in Stepped(g) : ThreadRunRaises(g.threads[i], g.shared_memory)

\* GlobalState.run() -> Set[GlobalState], when it does not raise
GlobalStateRun(g) == {StepThread(g, i) : i \in Stepped(g)}

\* Transition(start, end)
Transition(start, end) == [start |-> start, end |-> end]

----------------------------------------------------------------------------
(* main() *)

\* The GlobalState main() builds: P and Q at state 1, a = 0, b = 0
MainInitial ==
    GlobalState([a |-> 0, b |-> 0],
                <<Thread(EmptyMemory, PStates, "P", 1, TRUE),
                  Thread(EmptyMemory, QStates, "Q", 1, TRUE)>>)

\* Largest initial value of a shared variable among the explored inputs
MaxValue == 1

\* Start points of a thread among the explored inputs
PStarts == {<<1, TRUE>>, <<2, TRUE>>, <<4, TRUE>>, <<3, FALSE>>}
QStarts == {<<1, TRUE>>, <<2, TRUE>>, <<3, FALSE>>, <<0, TRUE>>, <<4, TRUE>>}

PThreads == {Thread(EmptyMemory, PStates, "P", s[1], s[2]) : s \in PStarts}
QThreads == {Thread(EmptyMemory, QStates, "Q", s[1], s[2]) : s \in QStarts}

\* GlobalStates over the two tables of main(): P and Q together, or one alone
Inputs ==
    {GlobalState([a |-> x, b |-> y], ts) :
        x \in 0..MaxValue, y \in 0..MaxValue,
        ts \in {<<p, q>> : p \in PThreads, q \in QThreads}
               \cup {<<p>> : p \in PThreads} \cup {<<q>> : q \in QThreads}}

\* the orders in which iterating a set can yield its elements
Orderings(S) ==
    {s \in [1..Cardinality(S) -> S] :
        \A i, j \in 1..Cardinality(S) : i # j => s[i] # s[j]}

\* lines 93-96 and 121: the state in which main() reaches its loop
Fresh(g) ==
    /\ initial = g
    /\ used = {}
    /\ queue = <<g>>
    /\ transitions = {}
    /\ item = <<>>
    /\ new_states = {}
    /\ pc = "loop"
    /\ expanded = EmptyBag
    /\ enqueued = SetToBag({g})
    /\ calls = {}

\* no Memory.set call is followed on its own
NoHeap == heap = <<>> /\ call = <<>>

Init == \E g \in Inputs \cup {MainInitial} : Fresh(g) /\ previous = <<>> /\ NoHeap

InitMain == Fresh(MainInitial) /\ previous = <<>> /\ NoHeap

\* the queue without its k-th element
Without(q, k) == SubSeq(q, 1, k - 1) \o SubSeq(q, k + 1, Len(q))

\* `while len(queue) > 0` holds; the k-th element of the queue is taken as
\* item, and new_states = item.run()
PopAt(k) ==
    /\ pc = "loop"
    /\ Len(queue) > 0
    /\ item' = <<queue[k]>>
    /\ queue' = Without(queue, k)
    /\ expanded' = expanded (+) SetToBag({queue[k]})
    /\ IF GlobalStateRunRaises(queue[k])
       THEN pc' = "error" /\ UNCHANGED new_states
       ELSE pc' = "record" /\ new_states' = GlobalStateRun(queue[k])
    /\ calls' = calls \cup {queue[k].threads[i] : i \in Called(queue[k])}
    /\ UNCHANGED <<initial, used, transitions, enqueued, previous, heap, call>>

\* item = queue.popleft()
Pop == PopAt(1)

\* the for loop run over the states not yet in used only
RecordNewOnly ==
    /\ pc = "record"
    /\ transitions' =
          transitions \cup {Transition(item[1], i) : i \in new_states \ used}
    /\ pc' = "extend"
    /\ UNCHANGED <<initial, used, queue, item, new_states, expanded, enqueued, previous, calls, heap, call>>

\* for i in new_states: transitions.add(Transition(item, i))
Record ==
    /\ pc = "record"
    /\ transitions' = transitions \cup {Transition(item[1], i) : i \in new_states}
    /\ pc' = "extend"
    /\ UNCHANGED <<initial, used, queue, item, new_states, expanded, enqueued, previous, calls, heap, call>>

\* used.update(new_states) run before the difference is taken: nothing is clean
ExtendUpdateFirst ==
    /\ pc = "extend"
    /\ used' = used \cup new_states
    /\ pc' = "loop"
    /\ UNCHANGED <<initial, queue, transitions, item, new_states, expanded,
                   enqueued, previous, calls, heap, call>>

\* every clean state marked used, but only the first one iterated is queued
ExtendQueuesFirst ==
    /\ pc = "extend"
    /\ LET clean_new_states == new_states \ used
       IN  /\ used' = used \cup clean_new_states
           /\ \E order \in Orderings(clean_new_states) :
                 LET first == IF order = <<>> THEN <<>> ELSE <<order[1]>>
                 IN  /\ queue' = queue \o first
                     /\ enqueued' = enqueued (+) SetToBag({first[k] : k \in DOMAIN first})
    /\ pc' = "loop"
    /\ UNCHANGED <<initial, transitions, item, new_states, expanded, previous, calls, heap, call>>

\* clean_new_states = new_states.difference(used); used.update(clean_new_states);
\* queue.extend(clean_new_states), in the order the set iterates
Extend ==
    /\ pc = "extend"
    /\ LET clean_new_states == new_states \ used
       IN  /\ used' = used \cup clean_new_states
           /\ \E order \in Orderings(clean_new_states) : queue' = queue \o order
           /\ enqueued' = enqueued (+) SetToBag(clean_new_states)
    /\ pc' = "loop"
    /\ UNCHANGED <<initial, transitions, item, new_states, expanded, previous, calls, heap, call>>

\* `while len(queue) > 1`: the loop left with one item still queued
DoneEarly ==
    /\ pc = "loop"
    /\ Len(queue) <= 1
    /\ pc' = "done"
    /\ UNCHANGED <<initial, used, queue, transitions, item, new_states, expanded,
                   enqueued, previous, calls, heap, call>>

\* the loop condition fails: main() prints its result
Done ==
    /\ pc = "loop"
    /\ Len(queue) = 0
    /\ pc' = "done"
    /\ UNCHANGED <<initial, used, queue, transitions, item, new_states, expanded,
                   enqueued, previous, calls, heap, call>>

Next == Pop \/ Record \/ Extend \/ Done

Spec == Init /\ [][Next]_vars

\* main() alone, on the GlobalState it builds
SpecMain == InitMain /\ [][Next]_vars

----------------------------------------------------------------------------
(* Other traversal orders, and a second run *)

\* item = queue.pop(): the frontier consumed from the back (depth first)
PopLast == PopAt(Len(queue))

\* main() is run again on the same GlobalState; what the first run ended
\* with is kept for comparison
Again ==
    /\ pc = "done"
    /\ previous = <<>>
    /\ previous' = <<used, transitions, item>>
    /\ used' = {}
    /\ queue' = <<initial>>
    /\ transitions' = {}
    /\ item' = <<>>
    /\ new_states' = {}
    /\ pc' = "loop"
    /\ expanded' = EmptyBag
    /\ enqueued' = SetToBag({initial})
    /\ calls' = {}
    /\ UNCHANGED <<initial, heap, call>>

NextAnyOrder == Pop \/ PopLast \/ Record \/ Extend \/ Done \/ Again

\* main()'s GlobalState, and the inputs with a single thread or with Q stopped
\* from the start
OrderInputs ==
    {MainInitial} \cup
    {g \in Inputs : Len(g.threads) = 1 \/ ~g.threads[2].is_running}

InitAnyOrder == \E g \in OrderInputs : Fresh(g) /\ previous = <<>> /\ NoHeap

SpecAnyOrder == InitAnyOrder /\ [][NextAnyOrder]_vars

----------------------------------------------------------------------------
(* The scenarios: the exploration of main() on other tables *)

\* Scenario A: one thread at state 0 of a one-entry table, shared {x: 0}
ScenarioA ==
    GlobalState([x |-> 0], <<Thread(EmptyMemory, AStates, "A", 0, TRUE)>>)

\* Scenario B: two threads at state 0, each on its own variable, a = b = 0
ScenarioB ==
    GlobalState([a |-> 0, b |-> 0],
                <<Thread(EmptyMemory, BAStates, "A", 0, TRUE),
                  Thread(EmptyMemory, BBStates, "B", 0, TRUE)>>)

\* the scenarios, from each start point and each initial value
ScenarioInputs ==
    {GlobalState([x |-> v], <<Thread(EmptyMemory, AStates, "A", 0, TRUE)>>) :
        v \in 0..MaxValue}
    \cup
    {GlobalState([a |-> v, b |-> w],
                 <<Thread(EmptyMemory, BAStates, "A", k, TRUE),
                   Thread(EmptyMemory, BBStates, "B", l, TRUE)>>) :
        v \in 0..MaxValue, w \in 0..MaxValue, k \in {0, 1}, l \in {0, 1}}

InitScenarios == \E g \in ScenarioInputs : Fresh(g) /\ previous = <<>> /\ NoHeap

SpecScenarios == InitScenarios /\ [][Next]_vars

----------------------------------------------------------------------------
(* Memory.set followed on a heap of Memory objects *)

\* Largest number of Memory objects followed
MaxObjects == 3

\* the variable names and the contents of the Memory objects followed
MemoryKeys == {"a", "b"}
Contents == UNION {[K -> 0..MaxValue] : K \in SUBSET MemoryKeys}

\* Memory.set with `new_vars = self.vars` in place of `dict(self.vars)`: the
\* kwargs are written into the receiver's own mapping
SetOnHeapInPlace(h, receiver, kwargs) ==
    Append([h EXCEPT ![receiver] = MemorySet(h[receiver], kwargs)],
           MemorySet(h[receiver], kwargs))

\* Memory.set: dict(self.vars) is a new mapping, the kwargs are written into
\* it, and a new Memory object holds it
SetOnHeap(h, receiver, kwargs) == Append(h, MemorySet(h[receiver], kwargs))

InitMemory ==
    /\ Fresh(MainInitial) /\ previous = <<>>
    /\ call = <<>>
    /\ \E m \in Contents : heap = <<m>>

\* some Memory object's set is called with some kwargs
MemorySetCall ==
    /\ Len(heap) < MaxObjects
    /\ \E receiver \in DOMAIN heap, kwargs \in Contents :
          /\ heap' = SetOnHeap(heap, receiver, kwargs)
          /\ call' = <<[receiver |-> receiver, kwargs |-> kwargs,
                        result |-> Len(heap) + 1, before |-> heap]>>
    /\ UNCHANGED <<initial, used, queue, transitions, item, new_states, pc, expanded,
                   enqueued, previous, calls>>

SpecMemory == InitMemory /\ [][MemorySetCall]_vars

----------------------------------------------------------------------------
(* Reachability, for the statements below *)

\* the successor set of c, empty where c.run() raises
Successors(c) == IF GlobalStateRunRaises(c) THEN {} ELSE GlobalStateRun(c)

RECURSIVE Closure(_)
Closure(S) ==
    LET T == S \cup UNION {Successors(c) : c \in S}
    IN  IF T = S THEN S ELSE Closure(T)

\* the configurations reachable from g in zero or more steps
Reachable(g) == Closure({g})

\* no thread of c has is_running true
Terminal(c) == \A i \in 1..Len(c.threads) : ~c.threads[i].is_running

----------------------------------------------------------------------------
(* Statements *)

\* C1: when the loop of main() exits, used is exactly the set of
\* configurations reachable from the initial one in zero or more steps of
\* GlobalState.run: the initial one, everything reachable, nothing else.
C1_UsedIsReachable ==
    pc = "done" => /\ initial \in used
                   /\ used = Reachable(initial)

C1_Witness ==
    /\ pc = "done"
    /\ initial \in used
    /\ \E c \in used : c # initial /\ initial \in Reachable(c)

\* C2: when the loop exits, every successor of every configuration in used
\* is in used.
C2_FixPoint ==
    pc = "done" => \A c \in used : GlobalStateRun(c) \subseteq used

C2_Witness ==
    /\ pc = "done"
    /\ \E c \in used : \E d \in GlobalStateRun(c) : d # c /\ d \in used

\* C3: at every point of the exploration the initial configuration is in
\* used, and every configuration in the queue is in used.
C3_InitialAlwaysVisited ==
    pc # "error" => /\ initial \in used
                    /\ \A k \in 1..Len(queue) : queue[k] \in used

\* C4: no configuration is appended to the queue twice, none is expanded
\* twice, and at the end each reachable one was expanded exactly once.
C4_ExpandedOnce ==
    /\ \A c \in BagToSet(enqueued) : CopiesIn(c, enqueued) = 1
    /\ \A c \in BagToSet(expanded) : CopiesIn(c, expanded) = 1
    /\ pc = "done" => \A c \in Reachable(initial) : CopiesIn(c, expanded) = 1

\* C5: when the loop exits, every recorded transition has its start and its
\* end in used.
C5_EndpointsVisited ==
    pc = "done" => \A t \in transitions : t.start \in used /\ t.end \in used

C5_Witness ==
    /\ pc = "done"
    /\ \E t \in transitions : t.start = initial /\ t.end # initial

\* C6: when the loop exits, transitions holds Transition(c, s) exactly for
\* the reachable c and the s in c.run(), each pair once.
C6_TransitionsAreSteps ==
    pc = "done" =>
        transitions =
            UNION {{Transition(c, s) : s \in GlobalStateRun(c)} : c \in Reachable(initial)}

C6_Witness ==
    /\ pc = "done"
    /\ \E t \in transitions : t.start # initial /\ t.end \in used
    /\ \E t \in transitions : t.start \notin used

\* end is start with exactly one running thread i stepped
OneThreadStep(start, end) ==
    /\ Len(end.threads) = Len(start.threads)
    /\ \E i \in 1..Len(start.threads) :
          /\ start.threads[i].is_running
          /\ \A j \in 1..Len(start.threads) : j # i => end.threads[j] = start.threads[j]
          /\ end.threads[i].name = start.threads[i].name
          /\ end.threads[i].states = start.threads[i].states
          /\ end.threads[i] = ThreadRun(start.threads[i], start.shared_memory)[1]
          /\ end.shared_memory = ThreadRun(start.threads[i], start.shared_memory)[2]

\* C7: every successor computed and every transition recorded steps exactly
\* one running thread i: the other threads are identical in start and end,
\* thread i keeps its name and table, and the shared memory of end is the one
\* thread i's function returned.
C7_AtomicInterleaving ==
    /\ \A t \in transitions : OneThreadStep(t.start, t.end)
    /\ pc \in {"record", "extend"} => \A s \in new_states : OneThreadStep(item[1], s)

C7_Witness ==
    /\ pc = "done"
    /\ \E t \in transitions :
          /\ Len(t.start.threads) = 2
          /\ t.start.threads[1].is_running /\ t.start.threads[2].is_running
          /\ t.end.threads[1] = t.start.threads[1]
          /\ t.end.shared_memory # t.start.shared_memory

\* C8: a configuration with no running thread has an empty successor set,
\* expanding it raises nothing, and no transition starts at it.
C8_TerminalLeaves ==
    /\ \A c \in BagToSet(expanded) :
          Terminal(c) => /\ ~GlobalStateRunRaises(c)
                         /\ GlobalStateRun(c) = {}
                         /\ \A t \in transitions : t.start # c
    /\ (item # <<>> /\ Terminal(item[1])) => pc # "error"

C8_Witness ==
    /\ pc = "done"
    /\ \E c \in used : Terminal(c) /\ CopiesIn(c, expanded) = 1
    /\ transitions # {}

\* C9: a thread whose is_running is false is the same thread in the end of
\* every transition recorded from that configuration, and at the end in
\* every configuration reachable from it.
C9_PermanentDisablement ==
    /\ \A t \in transitions : \A i \in 1..Len(t.start.threads) :
          ~t.start.threads[i].is_running => t.end.threads[i] = t.start.threads[i]
    /\ pc = "done" =>
          \A c \in used \cup {initial} : \A i \in 1..Len(c.threads) :
              ~c.threads[i].is_running =>
                  \A d \in Reachable(c) : d.threads[i] = c.threads[i]

C9_Witness ==
    /\ pc = "done"
    /\ initial = MainInitial
    /\ \E t \in transitions :
          /\ t.start.threads[2].is_running
          /\ ~t.end.threads[2].is_running
          /\ \E u \in transitions : u.start = t.end /\ u.end # u.start

\* C10: two runs on the same initial configuration end with the same used
\* and the same transitions, whatever the order in which new states were
\* queued and whether items were taken from the front or from the back.
C10_SameResult ==
    (pc = "done" /\ previous # <<>>) =>
        previous[1] = used /\ previous[2] = transitions

C10_Witness ==
    /\ pc = "done"
    /\ previous # <<>>
    /\ used # {}
    /\ previous[3] # item

\* the loop of main() runs to its end when it is not stopped from outside
SpecMainFair == SpecMain /\ WF_vars(Next)

\* C11 (termination): the loop of main() reaches its exit.
C11_Terminates == <>(pc = "done")

\* C11 (growth): used only grows.
C11_UsedGrows == [][used \subseteq used']_vars

\* C11: the number of loop iterations (of items popped and expanded) never
\* exceeds the number of reachable configurations.
C11_IterationsBounded ==
    BagCardinality(expanded) <= Cardinality(Reachable(initial))

\* C12: no configuration in used has a thread whose current_state is not an
\* index of its states table (P in 0..4, Q in 0..3): a function returning
\* such an index would have ended the run.
C12_ValidProgramCounters ==
    \A c \in used : \A i \in 1..Len(c.threads) :
        c.threads[i].current_state \in 0..(Len(c.threads[i].states) - 1)

\* what scenario A's only step produces: x = 1, the thread at state 1
ScenarioA1 ==
    GlobalState([x |-> 1], <<Thread(EmptyMemory, AStates, "A", 1, TRUE)>>)

C14_ScenarioB ==
    (initial = ScenarioB /\ pc = "done") =>
        /\ Cardinality(used) = 4
        /\ Cardinality(transitions) = 4
        /\ \A c \in used : Cardinality(GlobalStateRun(c)) = 1

\* C14 amended: scenario B ends with 4 configurations and 8 transitions, every
\* configuration having exactly two successors, one for each thread.
C14_ScenarioBTwoSuccessors ==
    (initial = ScenarioB /\ pc = "done") =>
        /\ Cardinality(used) = 4
        /\ Cardinality(transitions) = 8
        /\ \A c \in used : Cardinality(GlobalStateRun(c)) = 2

C14_Witness == initial = ScenarioB /\ pc = "done" /\ initial \in used

\* C15: the Memory returned by Memory.set maps each given key to its given
\* value and every other key to the receiver's value, and the receiver and
\* every other Memory object are what they were before the call.
C15_PersistentUpdate ==
    call # <<>> =>
        LET c == call[1]
            old == c.before[c.receiver]
            new == heap[c.result]
        IN  /\ DOMAIN new = (DOMAIN old) \cup (DOMAIN c.kwargs)
            /\ \A k \in DOMAIN c.kwargs : new[k] = c.kwargs[k]
            /\ \A k \in (DOMAIN old) \ (DOMAIN c.kwargs) : new[k] = old[k]
            /\ \A o \in DOMAIN c.before : heap[o] = c.before[o]

\* a Memory returned by an earlier set is the receiver; one of its keys is
\* overwritten with another value and one is kept
C15_Witness ==
    /\ call # <<>>
    /\ call[1].receiver > 1
    /\ LET c == call[1]
           old == c.before[c.receiver]
       IN  /\ \E k \in (DOMAIN old) \cap (DOMAIN c.kwargs) : old[k] # c.kwargs[k]
           /\ \E k \in DOMAIN old : k \notin DOMAIN c.kwargs

\* the configurations main() has built so far
Seen == {initial} \cup used \cup new_states

\* C16: Thread.run is never called on a thread whose is_running is false.
C16_RunOnlyRunning == \A t \in calls : t.is_running

\* a configuration with a stopped thread was expanded, and its other thread
\* was run
C16_Witness ==
    \E c \in BagToSet(expanded) :
        /\ Len(c.threads) = 2
        /\ ~c.threads[2].is_running
        /\ c.threads[1] \in calls

\* C17: in the shipped model no configuration has P at state 3 or 4 while Q
\* is at state 4.
C17_MutualExclusion ==
    \A c \in Seen :
        ~(c.threads[1].current_state \in {3, 4} /\ c.threads[2].current_state = 4)

\* at the end: P was seen at 3 next to Q at 2, and waiting at 2 next to Q at 4
C17_Witness ==
    /\ pc = "done"
    /\ \E c \in used : c.threads[1].current_state = 3 /\ c.threads[2].current_state = 2
    /\ \E c \in used : c.threads[1].current_state = 2 /\ c.threads[2].current_state = 4

\* C18: in the shipped model a = 1 exactly when P is at 2, 3 or 4 and a = 0
\* exactly when P is at 1; b = 1 exactly when Q is at 2, 3 or 4 and b = 0
\* exactly when Q is at 1; Q's is_running is false exactly when Q is at 4;
\* P's is_running is always true.
C18_SharedFollowsCounters ==
    \A c \in Seen :
        LET P == c.threads[1]
            Q == c.threads[2]
            a == MemoryGet(c.shared_memory, "a")
            b == MemoryGet(c.shared_memory, "b")
        IN  /\ a = 1 <=> P.current_state \in {2, 3, 4}
            /\ a = 0 <=> P.current_state = 1
            /\ b = 1 <=> Q.current_state \in {2, 3, 4}
            /\ b = 0 <=> Q.current_state = 1
            /\ ~Q.is_running <=> Q.current_state = 4
            /\ P.is_running

\* at the end: Q was seen back at 1 with b = 0 after its state 3, and stopped
C18_Witness ==
    /\ pc = "done"
    /\ \E t \in transitions :
          /\ t.start.threads[2].current_state = 3
          /\ t.end.threads[2].current_state = 1
          /\ MemoryGet(t.end.shared_memory, "b") = 0
    /\ \E c \in used : ~c.threads[2].is_running

\* C19: in the shipped model no configuration has a thread at state 0, nop is
\* never called, and the exploration does not end in an exception.
C19_NopNeverRuns ==
    /\ \A c \in Seen : \A i \in 1..Len(c.threads) : c.threads[i].current_state # 0
    /\ \A t \in calls : t.states[t.current_state + 1] # "nop"
    /\ pc # "error"

\* at the end: P's states[4], which leads back to state 1, was run
C19_Witness ==
    /\ pc = "done"
    /\ \E t \in calls : t.name = "P" /\ t.current_state = 4

\* C20: main() ends with 14 configurations in used and 26 transitions, and
\* each of the 14 configurations starts a transition.
C20_Counts ==
    pc = "done" =>
        /\ Cardinality(used) = 14
        /\ Cardinality(transitions) = 26
        /\ \A c \in used : ~Terminal(c) /\ \E t \in transitions : t.start = c

C20_Witness ==
    /\ pc = "done"
    /\ \E c \in used : Cardinality(GlobalStateRun(c)) = 1

====
